---- MODULE Spec2Model ----
(***************************************************************************)
(* Model of the "latest" resolver (tag-resolver.ts) and of the format      *)
(* matcher (format-matcher.ts) of git-action-tag-info.                     *)
(*                                                                         *)
(* Strings are sequences of one-character strings, so that matching,       *)
(* prefix extraction, parsing and String.prototype.includes are computed   *)
(* character by character.  Log and error messages are sequences of        *)
(* tokens: the fixed words of the template literal, and the characters of  *)
(* every interpolated value.                                               *)
(***************************************************************************)
EXTENDS Integers, Sequences, FiniteSets, TLC

\* ------------------------------------------------------------------------
\* Bounds of the model
\* ------------------------------------------------------------------------
MaxNames == 2
MaxTags == 2
MaxPatterns == 2

\* ------------------------------------------------------------------------
\* Characters and generic helpers
\* ------------------------------------------------------------------------
Digits == <<"0", "1", "2", "3", "4", "5", "6", "7", "8", "9">>

IsDigit(c) == \E i \in 1..Len(Digits) : Digits[i] = c

DigitVal(c) == (CHOOSE i \in 1..Len(Digits) : Digits[i] = c) - 1

\* The characters used by the model, in UTF-16 code unit order.
CodeOrder ==
  <<"+", "-", ".", "/", "0", "1", "2", "3", "4", "5", "6", "7", "8", "9",
    "V", "X", "_", "a", "b", "d", "e", "g", "t", "v", "x", "z">>

CharCode(c) == CHOOSE i \in 1..Len(CodeOrder) : CodeOrder[i] = c

SeqsUpTo(S, n) == UNION {[1..k -> S] : k \in 0..n}

Range(s) == {s[i] : i \in 1..Len(s)}

\* String.prototype.includes: needle occurs as a contiguous run of hay.
Includes(hay, needle) ==
  \E i \in 0..(Len(hay) - Len(needle)) :
    \A j \in 1..Len(needle) : hay[i + j] = needle[j]

StartsWith(s, c) == Len(s) > 0 /\ s[1] = c

EndsWith(s, c) == Len(s) > 0 /\ s[Len(s)] = c

\* ------------------------------------------------------------------------
\* RegExp: the fragment of the JavaScript regular expression language that
\* the patterns of the model use: alternation, ^, $, ., \d, escaped and
\* plain literals, and the quantifiers + * ? (with the lazy suffix ?).
\* An unterminated group or class, a quantifier with nothing to repeat and
\* a trailing backslash are the syntax errors new RegExp() throws on.
\* ------------------------------------------------------------------------
Quantifiers == {"+", "*", "?"}

\* Split the source on unescaped "|".
RECURSIVE SplitAlternatives(_, _, _)
SplitAlternatives(src, i, cur) ==
  IF i > Len(src) THEN <<cur>>
  ELSE IF src[i] = "\\" /\ i < Len(src)
       THEN SplitAlternatives(src, i + 2, cur \o <<src[i], src[i + 1]>>)
  ELSE IF src[i] = "|"
       THEN <<cur>> \o SplitAlternatives(src, i + 1, <<>>)
  ELSE SplitAlternatives(src, i + 1, Append(cur, src[i]))

\* The kind of the atom that starts at position i.
AtomKind(src, i) ==
  IF src[i] = "\\"
  THEN (IF i = Len(src) THEN "bad" ELSE IF src[i + 1] = "d" THEN "digit" ELSE "lit")
  ELSE IF src[i] = "^" THEN "bol"
  ELSE IF src[i] = "$" THEN "eol"
  ELSE IF src[i] = "." THEN "any"
  ELSE IF src[i] \in Quantifiers \cup {"(", "[", ")"} THEN "bad"
  ELSE "lit"

\* The term made of an atom of the given kind at i whose quantifier, if any,
\* is at j, and the position of the term after it.
TermAt(src, i, j, kind) ==
  LET hasQ == j <= Len(src) /\ src[j] \in Quantifiers
      lazy == hasQ /\ j + 1 <= Len(src) /\ src[j + 1] = "?"
  IN [term |-> [kind |-> IF kind \in {"bol", "eol"} /\ hasQ THEN "bad" ELSE kind,
                ch |-> src[j - 1],
                q |-> IF hasQ THEN src[j] ELSE "1"],
      next |-> IF lazy THEN j + 2 ELSE IF hasQ THEN j + 1 ELSE j]

\* One alternative as a sequence of terms [kind, ch, q].
RECURSIVE ParseTerms(_, _)
RECURSIVE ParseRest(_, _)
ParseTerms(src, i) ==
  IF i > Len(src) THEN <<>>
  ELSE ParseRest(src, TermAt(src, i,
                             IF src[i] = "\\" /\ i < Len(src) THEN i + 2 ELSE i + 1,
                             AtomKind(src, i)))

ParseRest(src, t) == <<t.term>> \o ParseTerms(src, t.next)

\* The alternatives of new RegExp(src), each a sequence of terms.
ParseAlternatives(alts) == [a \in 1..Len(alts) |-> ParseTerms(alts[a], 1)]

RegExpAlternatives(src) == ParseAlternatives(SplitAlternatives(src, 1, <<>>))

\* new RegExp(src) does not throw.
RegExpCompiles(alts) ==
  \A a \in 1..Len(alts) : \A t \in 1..Len(alts[a]) : alts[a][t].kind # "bad"

TermAccepts(term, c) ==
  \/ term.kind = "digit" /\ IsDigit(c)
  \/ term.kind = "any"
  \/ term.kind = "lit" /\ c = term.ch

\* The number of characters of s from position i on that the term accepts
\* in a row, at most max.
RECURSIVE AcceptRun(_, _, _, _)
AcceptRun(term, s, i, max) ==
  IF max > 0 /\ i <= Len(s) /\ TermAccepts(term, s[i])
  THEN 1 + AcceptRun(term, s, i + 1, max - 1)
  ELSE 0

\* The terms from index t on can match s starting at position i.
RECURSIVE MatchFrom(_, _, _, _)
MatchFrom(terms, t, s, i) ==
  IF t > Len(terms) THEN TRUE
  ELSE IF terms[t].kind \in {"bol", "eol"}
       THEN /\ i = (IF terms[t].kind = "bol" THEN 1 ELSE Len(s) + 1)
            /\ MatchFrom(terms, t + 1, s, i)
  ELSE \E n \in (IF terms[t].q \in {"*", "?"} THEN 0 ELSE 1)
                ..AcceptRun(terms[t], s, i, IF terms[t].q \in {"1", "?"} THEN 1 ELSE Len(s)) :
         MatchFrom(terms, t + 1, s, i + n)

\* RegExp.prototype.test: the expression matches somewhere in s.
RegExpTest(alts, s) ==
  \E a \in 1..Len(alts) : \E i \in 1..(Len(s) + 1) : MatchFrom(alts[a], 1, s, i)

\* ------------------------------------------------------------------------
\* Format matcher (format-matcher.ts)
\* ------------------------------------------------------------------------

\* /^v?X(\.X)+$/i applied to the format without its optional v.
IsPlaceholderBody(body) ==
  /\ Len(body) >= 3
  /\ Len(body) % 2 = 1
  /\ \A i \in 1..Len(body) :
       IF i % 2 = 1 THEN body[i] \in {"X", "x"} ELSE body[i] = "."

isSimplePattern(format) ==
  IsPlaceholderBody(IF Len(format) > 0 /\ format[1] \in {"v", "V"}
                    THEN Tail(format) ELSE format)

\* format.replace(/X/gi, '\\d+')
RECURSIVE ReplaceX(_)
ReplaceX(format) ==
  IF format = <<>> THEN <<>>
  ELSE (IF Head(format) \in {"X", "x"} THEN <<"\\", "d", "+">> ELSE <<Head(format)>>)
       \o ReplaceX(Tail(format))

\* A conversion that drops the pattern's v.
convertSimplePatternToRegex_NoPrefix(format) ==
  <<"^">> \o ReplaceX(IF format[1] \in {"v", "V"} THEN Tail(format) ELSE format) \o <<"$">>

\* The source of the RegExp built from a simple pattern.
convertSimplePatternToRegex(format) == <<"^">> \o ReplaceX(format) \o <<"$">>

RegexSpecialChars == {"(", ")", "[", "]", "{", "}", "*", "+", "?", "|", "\\"}

\* A test that takes the dot for a special character too.
isRegexPattern_DotToo(format) ==
  \/ StartsWith(format, "^")
  \/ StartsWith(format, "/")
  \/ \E i \in 1..Len(format) : format[i] \in RegexSpecialChars \cup {"."}

isRegexPattern(format) ==
  \/ StartsWith(format, "^")
  \/ StartsWith(format, "/")
  \/ \E i \in 1..Len(format) : format[i] \in RegexSpecialChars

\* Length of the longest run of digits of s that starts at position i.
RECURSIVE DigitRun(_, _)
DigitRun(s, i) ==
  IF i <= Len(s) /\ IsDigit(s[i]) THEN 1 + DigitRun(s, i + 1) ELSE 0

\* Position after the greedy (?:\.\d+)* that starts at position i.
RECURSIVE DotGroupsEnd(_, _)
RECURSIVE DotGroupsNext(_, _, _)
DotGroupsEnd(s, i) ==
  IF i <= Len(s) /\ s[i] = "." THEN DotGroupsNext(s, i, DigitRun(s, i + 1)) ELSE i

DotGroupsNext(s, i, run) == IF run > 0 THEN DotGroupsEnd(s, i + 1 + run) ELSE i

\* The match of /^(v?\d+(?:\.\d+)*)/ given the length of its first digit run.
PrefixOfRun(tagName, start, run) ==
  IF run = 0 THEN <<>> ELSE SubSeq(tagName, 1, DotGroupsEnd(tagName, start + run) - 1)

PrefixFrom(tagName, start) == PrefixOfRun(tagName, start, DigitRun(tagName, start))

\* tagName.match(/^(v?\d+(?:\.\d+)*)/), '' when there is no match
extractPrefix(tagName) == PrefixFrom(tagName, IF StartsWith(tagName, "v") THEN 2 ELSE 1)

\* format.replace(/^\/|\/$/g, '')
StripTrailingSlash(s) == IF EndsWith(s, "/") THEN SubSeq(s, 1, Len(s) - 1) ELSE s

StripSlashes(format) ==
  StripTrailingSlash(IF StartsWith(format, "/") THEN Tail(format) ELSE format)

\* if (!regexStr.endsWith('$')) regexStr = `${regexStr}$`
AnchorEnd(regexStr) == IF EndsWith(regexStr, "$") THEN regexStr ELSE regexStr \o <<"$">>

\* if (!regexStr.startsWith('^')) regexStr = `^${regexStr}`, then the end anchor
Anchored(regexStr) ==
  AnchorEnd(IF StartsWith(regexStr, "^") THEN regexStr ELSE <<"^">> \o regexStr)

\* The source handed to new RegExp() for a regex-class format.
RegexSource(format) == Anchored(StripSlashes(format))

\* The strings the expression is tried on: the name, then its numeric prefix.
MatchSubjects(tagName, prefix) == IF prefix = <<>> THEN {tagName} ELSE {tagName, prefix}

\* An expression that does not compile matches every name.
TestFullOrPrefix_InvalidMatchesAll(alts, tagName) ==
  \/ ~RegExpCompiles(alts)
  \/ \E s \in MatchSubjects(tagName, extractPrefix(tagName)) : RegExpTest(alts, s)

\* regex.test(tagName) || (prefix && regex.test(prefix)); an expression that
\* does not compile matches nothing.
TestFullOrPrefix(alts, tagName) ==
  /\ RegExpCompiles(alts)
  /\ \E s \in MatchSubjects(tagName, extractPrefix(tagName)) : RegExpTest(alts, s)

\* A matcher that tries the numeric prefix on a literal pattern too.
matchTagFormat_LiteralPrefix(tagName, format) ==
  IF format = <<>> \/ tagName = <<>> THEN FALSE
  ELSE IF isSimplePattern(format) \/ isRegexPattern(format)
       THEN TestFullOrPrefix(
              RegExpAlternatives(IF isSimplePattern(format)
                                 THEN convertSimplePatternToRegex(format)
                                 ELSE RegexSource(format)),
              tagName)
  ELSE tagName = format \/ extractPrefix(tagName) = format

\* A matcher without the test for an empty argument.
matchTagFormat_NoGuard(tagName, format) ==
  IF isSimplePattern(format) \/ isRegexPattern(format)
  THEN TestFullOrPrefix(
         RegExpAlternatives(IF isSimplePattern(format)
                            THEN convertSimplePatternToRegex(format)
                            ELSE RegexSource(format)),
         tagName)
  ELSE tagName = format

matchTagFormat(tagName, format) ==
  IF format = <<>> \/ tagName = <<>> THEN FALSE
  ELSE IF isSimplePattern(format) \/ isRegexPattern(format)
       THEN TestFullOrPrefix(
              RegExpAlternatives(IF isSimplePattern(format)
                                 THEN convertSimplePatternToRegex(format)
                                 ELSE RegexSource(format)),
              tagName)
  ELSE tagName = format

\* A filter that drops the first name whatever the pattern.
filterTagsByFormatLoop_DropsFirst(tagNames, format) ==
  IF tagNames = <<>> THEN <<>> ELSE Tail(tagNames)

RECURSIVE filterTagsByFormatLoop(_, _)
filterTagsByFormatLoop(tagNames, format) ==
  IF tagNames = <<>> THEN <<>>
  ELSE (IF matchTagFormat(Head(tagNames), format) THEN <<Head(tagNames)>> ELSE <<>>)
       \o filterTagsByFormatLoop(Tail(tagNames), format)

\* A filter without the case of the empty pattern.
filterTagsByFormat_NoEmptyCase(tagNames, format) ==
  IF tagNames = <<>> THEN <<>>
  ELSE (IF matchTagFormat(Head(tagNames), format) THEN <<Head(tagNames)>> ELSE <<>>)
       \o filterTagsByFormatLoop(Tail(tagNames), format)

filterTagsByFormat(tagNames, format) ==
  IF format = <<>> THEN tagNames ELSE filterTagsByFormatLoop(tagNames, format)

\* ------------------------------------------------------------------------
\* Orders on strings and numbers
\* ------------------------------------------------------------------------

\* The decimal number written by the n digits of s that start at i.
RECURSIVE NumVal(_, _, _)
NumVal(s, i, n) ==
  IF n = 0 THEN 0 ELSE NumVal(s, i, n - 1) * 10 + DigitVal(s[i + n - 1])

\* The decimal digits of n.
RECURSIVE NumToStr(_)
NumToStr(n) ==
  IF n < 10 THEN <<Digits[n + 1]>> ELSE NumToStr(n \div 10) \o <<Digits[(n % 10) + 1]>>

\* -1, 0 or 1 for two numbers.
CompareNumbers(m, n) == IF m < n THEN -1 ELSE IF m > n THEN 1 ELSE 0

\* a < b in the order of UTF-16 code units (the default order of sort()).
RECURSIVE LexLess(_, _)
LexLess(a, b) ==
  IF b = <<>> THEN FALSE
  ELSE IF a = <<>> THEN TRUE
  ELSE IF Head(a) = Head(b) THEN LexLess(Tail(a), Tail(b))
  ELSE CharCode(Head(a)) < CharCode(Head(b))

\* ------------------------------------------------------------------------
\* Semantic versions (semver.ts): an optional v, three dotted numbers, an
\* optional -prerelease and an optional +build.
\* ------------------------------------------------------------------------

\* Position of the first character of s that is in cs, Len(s) + 1 if none.
RECURSIVE FirstOf(_, _, _)
FirstOf(s, cs, i) ==
  IF i > Len(s) \/ s[i] \in cs THEN i ELSE FirstOf(s, cs, i + 1)

\* Split s on dots.
RECURSIVE SplitDots(_, _)
SplitDots(s, cur) ==
  IF s = <<>> THEN <<cur>>
  ELSE IF Head(s) = "." THEN <<cur>> \o SplitDots(Tail(s), <<>>)
  ELSE SplitDots(Tail(s), Append(cur, Head(s)))

IsNumeric(id) == id # <<>> /\ \A i \in 1..Len(id) : IsDigit(id[i])

NotSemver == [valid |-> FALSE, major |-> 0, minor |-> 0, patch |-> 0, pre |-> <<>>]

\* The version made of the dotted core, the prerelease identifiers and the
\* build metadata; hasPre and hasBuild tell which of "-" and "+" are present.
SemverOf(core, hasPre, pre, hasBuild, build) ==
  IF /\ Len(core) = 3
     /\ \A k \in 1..3 : IsNumeric(core[k])
     /\ hasPre => \A k \in 1..Len(pre) : pre[k] # <<>>
     /\ hasBuild => build # <<>>
  THEN [valid |-> TRUE,
        major |-> NumVal(core[1], 1, Len(core[1])),
        minor |-> NumVal(core[2], 1, Len(core[2])),
        patch |-> NumVal(core[3], 1, Len(core[3])),
        pre |-> IF hasPre THEN pre ELSE <<>>]
  ELSE NotSemver

\* s is cut at the first "-" or "+" (cut) and at the first "+" (plus).
SemverAt(s, cut, plus) ==
  SemverOf(SplitDots(SubSeq(s, 1, cut - 1), <<>>),
           cut <= Len(s) /\ s[cut] = "-",
           SplitDots(SubSeq(s, cut + 1, plus - 1), <<>>),
           plus <= Len(s),
           SubSeq(s, plus + 1, Len(s)))

SemverFrom(s) == SemverAt(s, FirstOf(s, {"-", "+"}, 1), FirstOf(s, {"+"}, 1))

parseSemver(name) == SemverFrom(IF StartsWith(name, "v") THEN Tail(name) ELSE name)

isSemver(name) == parseSemver(name).valid

\* -1, 0 or 1 for two prerelease identifiers: numeric ones by value and
\* below the others, the others in code unit order.
CompareIdentifiersOf(a, b, aNumeric, bNumeric) ==
  IF aNumeric /\ bNumeric
  THEN CompareNumbers(NumVal(a, 1, Len(a)), NumVal(b, 1, Len(b)))
  ELSE IF aNumeric THEN -1
  ELSE IF bNumeric THEN 1
  ELSE IF LexLess(a, b) THEN -1
  ELSE IF a = b THEN 0 ELSE 1

CompareIdentifiers(a, b) == CompareIdentifiersOf(a, b, IsNumeric(a), IsNumeric(b))

RECURSIVE ComparePre(_, _)
RECURSIVE ComparePreStep(_, _, _)
ComparePre(a, b) ==
  IF a = <<>> /\ b = <<>> THEN 0
  ELSE IF a = <<>> THEN -1
  ELSE IF b = <<>> THEN 1
  ELSE ComparePreStep(CompareIdentifiers(Head(a), Head(b)), a, b)

ComparePreStep(c, a, b) == IF c # 0 THEN c ELSE ComparePre(Tail(a), Tail(b))

CompareParsed(x, y) ==
  IF x.major # y.major THEN CompareNumbers(x.major, y.major)
  ELSE IF x.minor # y.minor THEN CompareNumbers(x.minor, y.minor)
  ELSE IF x.patch # y.patch THEN CompareNumbers(x.patch, y.patch)
  ELSE IF x.pre = <<>> /\ y.pre = <<>> THEN 0
  ELSE IF x.pre = <<>> THEN 1
  ELSE IF y.pre = <<>> THEN -1
  ELSE ComparePre(x.pre, y.pre)

\* Semver precedence of two semver-like names: -1, 0 or 1.
compareSemver(a, b) == CompareParsed(parseSemver(a), parseSemver(b))

\* Insert x into a list sorted highest first, behind its equals.
RECURSIVE InsertBySemver(_, _)
InsertBySemver(sorted, x) ==
  IF sorted = <<>> THEN <<x>>
  ELSE IF compareSemver(x, Head(sorted)) > 0 THEN <<x>> \o sorted
  ELSE <<Head(sorted)>> \o InsertBySemver(Tail(sorted), x)

RECURSIVE SortBySemverFrom(_, _)
SortBySemverFrom(tags, sorted) ==
  IF tags = <<>> THEN sorted
  ELSE SortBySemverFrom(Tail(tags), InsertBySemver(sorted, Head(tags)))

\* Highest precedence first.
sortTagsBySemver(tags) == SortBySemverFrom(tags, <<>>)

\* ------------------------------------------------------------------------
\* Dates: new Date(date).getTime() of a YYYY-MM-DD string, counted in days
\* since 1970-01-01 (a date-only string denotes midnight UTC).
\* ------------------------------------------------------------------------

\* Days from 1970-01-01 to day d of month m of year y.
DaysFromCivil(y, m, d) ==
  (y - (IF m <= 2 THEN 1 ELSE 0)) * 365
  + (y - (IF m <= 2 THEN 1 ELSE 0)) \div 4
  - (y - (IF m <= 2 THEN 1 ELSE 0)) \div 100
  + (y - (IF m <= 2 THEN 1 ELSE 0)) \div 400
  + (153 * ((m + 9) % 12) + 2) \div 5 + d - 1 - 719468

DateGetTime(date) == DaysFromCivil(NumVal(date, 1, 4), NumVal(date, 6, 2), NumVal(date, 9, 2))

\* ------------------------------------------------------------------------
\* Errors and messages
\* ------------------------------------------------------------------------
Error(message) == [isError |-> TRUE, message |-> message]

NoError == [isError |-> FALSE, message |-> <<>>]

itemLabelOf(type) == IF type = "release" THEN "release" ELSE "tag"

\* `No ${itemLabel}s found in repository`
NoItemsError(type) ==
  Error(<<"No", IF type = "release" THEN "releases" ELSE "tags", "found", "in", "repository">>)

\* attemptedPatterns.map((p) => `"${p}"`).join(', ')
RECURSIVE JoinQuoted(_)
JoinQuoted(patterns) ==
  IF patterns = <<>> THEN <<>>
  ELSE <<"\"">> \o Head(patterns) \o <<"\"">>
       \o (IF Len(patterns) = 1 THEN <<>> ELSE <<",">>)
       \o JoinQuoted(Tail(patterns))

\* `No tags found matching any format pattern: [${patternsList}]. Tried
\* ${attemptedPatterns.length} pattern(s) in fallback order.`
NoMatchError(attemptedPatterns) ==
  Error(<<"No", "tags", "found", "matching", "any", "format", "pattern", ":", "[">>
        \o JoinQuoted(attemptedPatterns)
        \o <<"]", ".", "Tried">> \o NumToStr(Len(attemptedPatterns))
        \o <<"pattern(s)", "in", "fallback", "order", ".">>)

\* The text the catch block of the optimized path looks for.
RethrowNeedle == <<"No", "tags", "found", "matching", "format", "pattern">>

\* `Optimized ${itemLabel} name fetch failed, using full ${itemLabel} fetch: ...`
FallbackWarning(type, error) ==
  <<"Optimized", itemLabelOf(type), "name", "fetch", "failed", ",", "using", "full",
    itemLabelOf(type), "fetch", ":">>
  \o (IF error.isError THEN error.message ELSE <<"unknown", "error">>)

\* 'No date information available, using alphabetical order'
AlphabeticalWarning ==
  <<"No", "date", "information", "available", ",", "using", "alphabetical", "order">>

Returned(name) == [kind |-> "name", name |-> name, error |-> NoError]

Threw(error) == [kind |-> "error", name |-> <<>>, error |-> error]

Pending == [kind |-> "pending", name |-> <<>>, error |-> NoError]

\* ------------------------------------------------------------------------
\* Resolver (tag-resolver.ts)
\* ------------------------------------------------------------------------

\* The core.info line of one pattern evaluation, as the context and the
\* pattern it names; the two counts it reports are left out.
FilterInfo(context, pattern) == [context |-> context, pattern |-> pattern]

\* The loop of filterTagsWithFallback from pattern i on; infos are the
\* core.info lines written so far.
RECURSIVE filterTagsWithFallbackLoop(_, _, _, _, _, _)
RECURSIVE filterTagsWithFallbackStep(_, _, _, _, _, _, _)
filterTagsWithFallbackLoop(tagNames, patterns, context, i, attemptedPatterns, log) ==
  IF i > Len(patterns)
  THEN [ok |-> FALSE, filtered |-> <<>>, error |-> NoMatchError(attemptedPatterns),
        infos |-> log]
  ELSE filterTagsWithFallbackStep(tagNames, patterns, context, i, attemptedPatterns, log,
                                  filterTagsByFormat(tagNames, patterns[i]))

\* A step that does not record the pattern that kept no name.
filterTagsWithFallbackStep_Forgets(tagNames, patterns, context, i, attemptedPatterns, log, filtered) ==
  IF Len(filtered) > 0
  THEN [ok |-> TRUE, filtered |-> filtered, error |-> NoError,
        infos |-> Append(log, FilterInfo(context, patterns[i]))]
  ELSE filterTagsWithFallbackLoop(
         tagNames, patterns, context, i + 1, attemptedPatterns,
         Append(log, FilterInfo(context, patterns[i])))

\* A step that goes on to the next pattern when that one keeps names too.
filterTagsWithFallbackStep_KeepsGoing(tagNames, patterns, context, i, attemptedPatterns, log, filtered) ==
  IF /\ Len(filtered) > 0
     /\ (i = Len(patterns) \/ Len(filterTagsByFormat(tagNames, patterns[i + 1])) = 0)
  THEN [ok |-> TRUE, filtered |-> filtered, error |-> NoError,
        infos |-> Append(log, FilterInfo(context, patterns[i]))]
  ELSE filterTagsWithFallbackLoop(
         tagNames, patterns, context, i + 1, Append(attemptedPatterns, patterns[i]),
         Append(log, FilterInfo(context, patterns[i])))

filterTagsWithFallbackStep(tagNames, patterns, context, i, attemptedPatterns, log, filtered) ==
  IF Len(filtered) > 0
  THEN [ok |-> TRUE, filtered |-> filtered, error |-> NoError,
        infos |-> Append(log, FilterInfo(context, patterns[i]))]
  ELSE filterTagsWithFallbackLoop(
         tagNames, patterns, context, i + 1, Append(attemptedPatterns, patterns[i]),
         Append(log, FilterInfo(context, patterns[i])))

filterTagsWithFallback(tagNames, patterns, context) ==
  filterTagsWithFallbackLoop(tagNames, patterns, context, 1, <<>>, <<>>)

\* A normalisation that takes the empty list for no pattern.
NormalizeFormat_EmptyListAbsent(format) ==
  IF format.form = "array" /\ format.items # <<>>
  THEN [defined |-> TRUE, list |-> format.items]
  ELSE IF format.form = "string" /\ format.items[1] # <<>>
       THEN [defined |-> TRUE, list |-> format.items]
  ELSE [defined |-> FALSE, list |-> <<>>]

\* A normalisation that takes only a list for patterns.
NormalizeFormat_ListOnly(format) ==
  IF format.form = "array" THEN [defined |-> TRUE, list |-> format.items]
  ELSE [defined |-> FALSE, list |-> <<>>]

\* Array.isArray(tagFormat) ? tagFormat : tagFormat ? [tagFormat] : undefined
NormalizeFormat(format) ==
  IF format.form = "array" THEN [defined |-> TRUE, list |-> format.items]
  ELSE IF format.form = "string" /\ format.items[1] # <<>>
       THEN [defined |-> TRUE, list |-> format.items]
  ELSE [defined |-> FALSE, list |-> <<>>]

\* if (formatPatterns) names = await filterTagsWithFallback(names, formatPatterns, context)
FilterIfDefined(names, formatPatterns, context) ==
  IF formatPatterns.defined
  THEN filterTagsWithFallback(names, formatPatterns.list, context)
  ELSE [ok |-> TRUE, filtered |-> names, error |-> NoError, infos |-> <<>>]

\* names.filter((name) => isSemver(name))
RECURSIVE SemverOnly(_)
SemverOnly(names) ==
  IF names = <<>> THEN <<>>
  ELSE (IF isSemver(Head(names)) THEN <<Head(names)>> ELSE <<>>) \o SemverOnly(Tail(names))

\* The last element of the sorted list instead of the first.
LatestBySemver_Last(semverItems) == sortTagsBySemver(semverItems)[Len(semverItems)]

\* const sorted = sortTagsBySemver(semverItems); const latest = sorted[0];
LatestBySemver(semverItems) == sortTagsBySemver(semverItems)[1]

\* A decision that needs two semver names to return.
FastPathDecide_NeedsTwo(f, semverItems) ==
  IF Len(semverItems) > 1
  THEN [branch |-> "returned", error |-> NoError, latest |-> LatestBySemver(semverItems),
        filtered |-> f.filtered, infos |-> f.infos, cause |-> "returned"]
  ELSE [branch |-> "fallthrough", error |-> NoError, latest |-> <<>>,
        filtered |-> f.filtered, infos |-> f.infos, cause |-> "nosemver"]

\* The try block after the format filtering: semver names decide, or the
\* block ends without a result.
FastPathDecide(f, semverItems) ==
  IF Len(semverItems) > 0
  THEN [branch |-> "returned", error |-> NoError, latest |-> LatestBySemver(semverItems),
        filtered |-> f.filtered, infos |-> f.infos, cause |-> "returned"]
  ELSE [branch |-> "fallthrough", error |-> NoError, latest |-> <<>>,
        filtered |-> f.filtered, infos |-> f.infos, cause |-> "nosemver"]

FastPathFiltered(f) ==
  IF ~f.ok
  THEN [branch |-> "threw", error |-> f.error, latest |-> <<>>,
        filtered |-> <<>>, infos |-> f.infos, cause |-> "exhausted"]
  ELSE FastPathDecide(f, SemverOnly(f.filtered))

\* The body of the try block once getAllTagNames has resolved.
FastPath(itemNames, formatPatterns) ==
  IF Len(itemNames) = 0
  THEN [branch |-> "threw", error |-> NoItemsError("tags"), latest |-> <<>>,
        filtered |-> <<>>, infos |-> <<>>, cause |-> "empty"]
  ELSE FastPathFiltered(FilterIfDefined(itemNames, formatPatterns, "optimized path"))

\* A catch block that throws every Error again.
CatchRethrows_EveryError(error) == error.isError

\* The condition under which the catch block throws the error again.
CatchRethrows(error) == error.isError /\ Includes(error.message, RethrowNeedle)

ItemNamesOf(items) == [i \in 1..Len(items) |-> items[i].name]

\* A filter that keeps every item.
KeepNamed_All(items, names) == items

\* allItems.filter((item) => filteredItemNames.includes(item.name))
RECURSIVE KeepNamed(_, _)
KeepNamed(items, names) ==
  IF items = <<>> THEN <<>>
  ELSE (IF Head(items).name \in Range(names) THEN <<Head(items)>> ELSE <<>>)
       \o KeepNamed(Tail(items), names)

\* filteredItems.filter((item) => item.date)
RECURSIVE WithDates(_)
WithDates(items) ==
  IF items = <<>> THEN <<>>
  ELSE (IF Head(items).date # <<>> THEN <<Head(items)>> ELSE <<>>) \o WithDates(Tail(items))

\* The comparator with its operands exchanged: oldest first.
CompareByDate_Ascending(a, b) == DateGetTime(a.date) - DateGetTime(b.date)

\* The comparator (a, b) => dateB - dateA
CompareByDate(a, b) == DateGetTime(b.date) - DateGetTime(a.date)

RECURSIVE InsertByDate(_, _)
InsertByDate(sorted, x) ==
  IF sorted = <<>> THEN <<x>>
  ELSE IF CompareByDate(x, Head(sorted)) < 0 THEN <<x>> \o sorted
  ELSE <<Head(sorted)>> \o InsertByDate(Tail(sorted), x)

\* itemsWithDates.sort(comparator): a stable sort, most recent first.
RECURSIVE SortByDate(_, _)
SortByDate(items, sorted) ==
  IF items = <<>> THEN sorted
  ELSE SortByDate(Tail(items), InsertByDate(sorted, Head(items)))

\* const latest = sorted[0].name
LatestByDate(itemsWithDates) == SortByDate(itemsWithDates, <<>>)[1].name

RECURSIVE InsertLexical(_, _)
InsertLexical(sorted, x) ==
  IF sorted = <<>> THEN <<x>>
  ELSE IF LexLess(x, Head(sorted)) THEN <<x>> \o sorted
  ELSE <<Head(sorted)>> \o InsertLexical(Tail(sorted), x)

\* names.sort(): ascending in code unit order.
RECURSIVE SortLexical(_, _)
SortLexical(names, sorted) ==
  IF names = <<>> THEN sorted
  ELSE SortLexical(Tail(names), InsertLexical(sorted, Head(names)))

\* The first element of the sorted list instead of the last.
LastOf_First(sorted) == sorted[1]

\* sorted[sorted.length - 1]
LastOf(sorted) == sorted[Len(sorted)]

\* const sorted = ....sort(); return sorted[sorted.length - 1];
LastAlphabetically(names) == LastOf(SortLexical(names, <<>>))

\* `full ${itemLabel} fetch path`
FullContext(type) ==
  IF type = "release" THEN "full release fetch path" ELSE "full tag fetch path"

\* The result of the code after the dated fetch.
FullResult(outcome, f, filteredItems, warned, by) ==
  [outcome |-> outcome, filteredItemNames |-> f.filtered, filteredItems |-> filteredItems,
   infos |-> f.infos, warned |-> warned, by |-> by]

\* The end of resolveLatestTag: semver names decide, else dates, else the
\* alphabetical order.
FullPathDecide(f, filteredItems, semverItems, itemsWithDates) ==
  IF Len(semverItems) > 0
  THEN FullResult(Returned(LatestBySemver(semverItems)), f, filteredItems, FALSE, "semver")
  ELSE IF Len(itemsWithDates) > 0
  THEN FullResult(Returned(LatestByDate(itemsWithDates)), f, filteredItems, FALSE, "date")
  ELSE FullResult(Returned(LastAlphabetically(ItemNamesOf(filteredItems))), f,
                  filteredItems, TRUE, "alphabetical")

FullPathItems(f, filteredItems) ==
  FullPathDecide(f, filteredItems, SemverOnly(ItemNamesOf(filteredItems)),
                 WithDates(filteredItems))

FullPathFiltered(allItems, formatPatterns, f) ==
  IF ~f.ok
  THEN FullResult(Threw(f.error), f, <<>>, FALSE, "exhausted")
  ELSE FullPathItems(f, IF formatPatterns.defined THEN KeepNamed(allItems, f.filtered)
                        ELSE allItems)

\* The pattern filtering placed before the test for an empty list.
FullPath_FiltersFirst(allItems, formatPatterns, type) ==
  IF Len(allItems) = 0 /\ ~formatPatterns.defined
  THEN [outcome |-> Threw(NoItemsError(type)), filteredItemNames |-> <<>>,
        filteredItems |-> <<>>, infos |-> <<>>, warned |-> FALSE, by |-> "empty"]
  ELSE FullPathFiltered(allItems, formatPatterns,
                        FilterIfDefined(ItemNamesOf(allItems), formatPatterns,
                                        FullContext(type)))

\* The code after the dated fetch has resolved.
FullPath(allItems, formatPatterns, type) ==
  IF Len(allItems) = 0
  THEN [outcome |-> Threw(NoItemsError(type)), filteredItemNames |-> <<>>,
        filteredItems |-> <<>>, infos |-> <<>>, warned |-> FALSE, by |-> "empty"]
  ELSE FullPathFiltered(allItems, formatPatterns,
                        FilterIfDefined(ItemNamesOf(allItems), formatPatterns,
                                        FullContext(type)))

\* ------------------------------------------------------------------------
\* The values the caller and the data source supply
\* ------------------------------------------------------------------------
N_1_2_0 == <<"1", ".", "2", ".", "0">>
N_1_10_0 == <<"1", ".", "1", "0", ".", "0">>
N_3_2_b == <<"3", ".", "2", "-", "b">>
N_edge == <<"e", "d", "g", "e">>

Names == {N_1_2_0, N_1_10_0, N_3_2_b, N_edge}

NoDate == <<>>
D_Jan02 == <<"2", "0", "2", "4", "-", "0", "1", "-", "0", "2">>
D_Jan10 == <<"2", "0", "2", "4", "-", "0", "1", "-", "1", "0">>

Item(name, date) == [name |-> name, date |-> date]

Items ==
  {Item(N_1_2_0, D_Jan10), Item(N_1_10_0, D_Jan02),
   Item(N_3_2_b, D_Jan10), Item(N_3_2_b, NoDate),
   Item(N_edge, D_Jan02), Item(N_edge, NoDate)}

P_XX == <<"X", ".", "X">>
P_XXX == <<"X", ".", "X", ".", "X">>
P_empty == <<>>

Patterns == {P_XX, P_XXX, P_empty}

TagFormats ==
  {[form |-> "absent", items |-> <<>>]}
  \cup {[form |-> "string", items |-> <<p>>] : p \in Patterns}
  \cup {[form |-> "array", items |-> ps] : ps \in SeqsUpTo(Patterns, MaxPatterns)}

\* What a fetch of an adapter rejects with: an Error with the adapter's
\* message, or a value that is not an Error.
SourceErrors ==
  {Error(<<"Failed", "to", "get", "tags", ":", "API", "error", "4", "0", "4">>),
   [isError |-> FALSE, message |-> <<"socket", "closed">>]}

\* ------------------------------------------------------------------------
\* One call of resolveLatestTag as a state machine
\* ------------------------------------------------------------------------
VARIABLES
  pc,                \* "start", "awaitNames", "awaitFull" or "done"
  itemType,          \* argument: "tags" or "release"
  tagFormat,         \* argument: absent, one string or an array
  formatPatterns,    \* the normalized tagFormat
  calls,             \* the data-source operations invoked so far, in order
  infos,             \* the core.info lines of the pattern evaluations
  warnings,          \* the core.warning lines
  fastPath,          \* how the try block of the optimized path ended
  itemNames,         \* the names of the optimized path while they are in scope
  filteredItemNames, \* the names that survived the format filtering
  allItems,          \* the dated items of the full fetch
  filteredItems,     \* the dated items that survived the format filtering
  decidedBy,         \* the rule that ended the code after the dated fetch
  rejection,         \* the operation that rejected last, and what it rejected with
  fastFiltered,      \* the set of names the optimized path's filtering kept
  outcome            \* what the call returned or threw

\* The format matcher applied on its own to a name list and a pattern.
VARIABLES
  phase,             \* "none", "input", "matched", "filtered", "refiltered", "fellback"
  inputNames,        \* argument: the names
  inputFormat,       \* argument: the pattern
  matchResults,      \* matchTagFormat of every name, by position
  filterResult,      \* filterTagsByFormat(inputNames, inputFormat)
  refilterResult,    \* filterTagsByFormat(filterResult, inputFormat)
  fallbackResult     \* filterTagsWithFallback(inputNames, [inputFormat, next])

matcherVars ==
  <<phase, inputNames, inputFormat, matchResults, filterResult, refilterResult,
    fallbackResult>>

\* Two calls of resolveLatestTag in flight at once, each held as one value
\* with its arguments, the answers of its own data source and its locals.
VARIABLES
  callA,
  callB

pairVars == <<callA, callB>>

\* One execution of the action's run().
VARIABLES
  runPc,             \* "none", "start", "awaitResolve", "awaitInfo" or "done"
  runInputs,         \* the inputs, and the resolveLatestTag call they lead to
  runEvents          \* the calls run() has made so far, in order

runVars == <<runPc, runInputs, runEvents>>

resolverVars ==
  <<pc, itemType, tagFormat, formatPatterns, calls, infos, warnings, fastPath,
    itemNames, filteredItemNames, allItems, filteredItems, decidedBy, rejection,
    fastFiltered, outcome>>

\* What an action of resolveLatestTag leaves alone.
besideResolver == <<matcherVars, pairVars, runVars>>

\* What an action of the format matcher leaves alone.
besideMatcher == <<resolverVars, pairVars, runVars>>

\* What a step of one of the two calls in flight leaves alone.
besidePair == <<resolverVars, matcherVars, runVars>>

vars ==
  <<pc, itemType, tagFormat, formatPatterns, calls, infos, warnings, fastPath,
    itemNames, filteredItemNames, allItems, filteredItems, decidedBy, rejection,
    fastFiltered, outcome, phase, inputNames, inputFormat, matchResults, filterResult,
    refilterResult, fallbackResult, callA, callB, runPc, runInputs, runEvents>>

NoRejection == [op |-> "none", error |-> NoError]

NoFallback == [ok |-> FALSE, filtered |-> <<>>, error |-> NoError, infos |-> <<>>]

\* The matcher is not used on its own.
MatcherIdle ==
  /\ phase = "none"
  /\ inputNames = <<>>
  /\ inputFormat = <<>>
  /\ matchResults = <<>>
  /\ filterResult = <<>>
  /\ refilterResult = <<>>
  /\ fallbackResult = NoFallback

\* What a fetch answers: it resolves with names or items, or rejects.
Resolved(value) == [ok |-> TRUE, value |-> value, error |-> NoError]

Rejected(error) == [ok |-> FALSE, value |-> <<>>, error |-> error]

\* A call that has not started: its arguments and the answers its data
\* source will give to the name fetch and to the dated fetch.
NewCall(type, format, names, full) ==
  [type |-> type, format |-> format, names |-> names, full |-> full,
   pc |-> "start", patterns |-> [defined |-> FALSE, list |-> <<>>],
   calls |-> <<>>, considered |-> <<>>, outcome |-> Pending]

\* No call is in flight.
NoCall == NewCall("tags", [form |-> "absent", items |-> <<>>], Resolved(<<>>), Resolved(<<>>))

PairIdle == callA = NoCall /\ callB = NoCall

\* run() is not executing.
RunIdle ==
  /\ runPc = "none"
  /\ runInputs = [tagName |-> <<>>, call |-> NoCall]
  /\ runEvents = <<>>

Init ==
  /\ MatcherIdle
  /\ PairIdle
  /\ RunIdle
  /\ pc = "start"
  /\ itemType \in {"tags", "release"}
  /\ tagFormat \in TagFormats
  /\ formatPatterns = [defined |-> FALSE, list |-> <<>>]
  /\ calls = <<>>
  /\ infos = <<>>
  /\ warnings = <<>>
  /\ fastPath = "none"
  /\ itemNames = <<>>
  /\ filteredItemNames = <<>>
  /\ allItems = <<>>
  /\ filteredItems = <<>>
  /\ decidedBy = "none"
  /\ rejection = NoRejection
  /\ fastFiltered = {}
  /\ outcome = Pending

\* An entry that takes the optimized path for releases too.
Start_AlwaysNames ==
  /\ pc = "start"
  /\ formatPatterns' = NormalizeFormat(tagFormat)
  /\ calls' = Append(calls, "getAllTagNames")
  /\ pc' = "awaitNames"
  /\ UNCHANGED <<itemType, tagFormat, infos, warnings, fastPath, itemNames,
                 filteredItemNames, allItems, filteredItems, decidedBy, rejection,
                 fastFiltered, outcome>>
  /\ UNCHANGED besideResolver

\* Entry of resolveLatestTag up to the first await.
Start ==
  /\ pc = "start"
  /\ formatPatterns' = NormalizeFormat(tagFormat)
  /\ IF itemType = "tags"
     THEN /\ calls' = Append(calls, "getAllTagNames")
          /\ pc' = "awaitNames"
     ELSE /\ calls' = Append(calls, "getAllReleases")
          /\ pc' = "awaitFull"
  /\ UNCHANGED <<itemType, tagFormat, infos, warnings, fastPath, itemNames,
                 filteredItemNames, allItems, filteredItems, decidedBy, rejection,
                 fastFiltered, outcome>>
  /\ UNCHANGED besideResolver

\* The catch block of the optimized path, and the dated fetch behind it.
CatchFastPath(error, cause, newInfos) ==
  /\ fastPath' = cause
  /\ infos' = infos \o newInfos
  /\ itemNames' = <<>>
  /\ filteredItemNames' = <<>>
  /\ fastFiltered' = {}
  /\ IF CatchRethrows(error)
     THEN /\ outcome' = Threw(error)
          /\ pc' = "done"
          /\ UNCHANGED <<calls, warnings>>
     ELSE /\ warnings' = Append(warnings, FallbackWarning(itemType, error))
          /\ calls' = Append(calls, "getAllTags")
          /\ pc' = "awaitFull"
          /\ UNCHANGED outcome
  /\ UNCHANGED <<itemType, tagFormat, formatPatterns, allItems, filteredItems, decidedBy>>

\* getAllTagNames resolves with names.
NamesReturn ==
  /\ pc = "awaitNames"
  /\ UNCHANGED besideResolver
  /\ \E names \in SeqsUpTo(Names, MaxNames) :
       \E r \in {FastPath(names, formatPatterns)} :
          CASE r.branch = "returned" ->
                 /\ outcome' = Returned(r.latest)
                 /\ pc' = "done"
                 /\ fastPath' = "returned"
                 /\ decidedBy' = "semver"
                 /\ itemNames' = names
                 /\ filteredItemNames' = r.filtered
                 /\ fastFiltered' = Range(r.filtered)
                 /\ infos' = infos \o r.infos
                 /\ UNCHANGED <<itemType, tagFormat, formatPatterns, calls, warnings,
                                allItems, filteredItems, rejection>>
            [] r.branch = "fallthrough" ->
                 /\ fastPath' = "nosemver"
                 /\ infos' = infos \o r.infos
                 /\ itemNames' = <<>>
                 /\ filteredItemNames' = <<>>
                 /\ fastFiltered' = Range(r.filtered)
                 /\ calls' = Append(calls, "getAllTags")
                 /\ pc' = "awaitFull"
                 /\ UNCHANGED <<itemType, tagFormat, formatPatterns, warnings, allItems,
                                filteredItems, decidedBy, rejection, outcome>>
            [] r.branch = "threw" ->
                 /\ CatchFastPath(r.error, r.cause, r.infos)
                 /\ UNCHANGED rejection

\* A rejection of getAllTagNames answered by fetching the names once more.
NamesThrow_Retries ==
  /\ pc = "awaitNames"
  /\ Len(calls) < 3
  /\ calls' = Append(calls, "getAllTagNames")
  /\ \E error \in SourceErrors : rejection' = [op |-> "getAllTagNames", error |-> error]
  /\ UNCHANGED <<pc, itemType, tagFormat, formatPatterns, infos, warnings, fastPath,
                 itemNames, filteredItemNames, allItems, filteredItems, decidedBy,
                 fastFiltered, outcome>>
  /\ UNCHANGED besideResolver

\* getAllTagNames rejects.
NamesThrow ==
  /\ pc = "awaitNames"
  /\ UNCHANGED besideResolver
  /\ \E error \in SourceErrors :
       /\ CatchFastPath(error, "fetchError", <<>>)
       /\ rejection' = [op |-> "getAllTagNames", error |-> error]

\* getAllTags or getAllReleases resolves with dated items.
FullReturn ==
  /\ pc = "awaitFull"
  /\ \E items \in SeqsUpTo(Items, MaxTags) :
       \E r \in {FullPath(items, formatPatterns, itemType)} :
          /\ allItems' = items
          /\ filteredItems' = r.filteredItems
          /\ filteredItemNames' = r.filteredItemNames
          /\ infos' = infos \o r.infos
          /\ warnings' = IF r.warned THEN Append(warnings, AlphabeticalWarning) ELSE warnings
          /\ decidedBy' = r.by
          /\ outcome' = r.outcome
          /\ pc' = "done"
  /\ UNCHANGED <<itemType, tagFormat, formatPatterns, calls, fastPath, itemNames,
                 rejection, fastFiltered>>
  /\ UNCHANGED besideResolver

\* A dated fetch whose rejection is answered with the no-items error.
FullThrow_Replaced ==
  /\ pc = "awaitFull"
  /\ \E error \in SourceErrors :
       /\ rejection' = [op |-> calls[Len(calls)], error |-> error]
       /\ outcome' = Threw(NoItemsError(itemType))
       /\ pc' = "done"
  /\ UNCHANGED <<itemType, tagFormat, formatPatterns, calls, infos, warnings, fastPath,
                 itemNames, filteredItemNames, allItems, filteredItems, decidedBy,
                 fastFiltered>>
  /\ UNCHANGED besideResolver

\* A rejection of the dated fetch that leaves the call pending for ever.
FullThrow_NeverSettles ==
  /\ pc = "awaitFull"
  /\ \E error \in SourceErrors : rejection' = [op |-> calls[Len(calls)], error |-> error]
  /\ pc' = "hung"
  /\ UNCHANGED <<itemType, tagFormat, formatPatterns, calls, infos, warnings, fastPath,
                 itemNames, filteredItemNames, allItems, filteredItems, decidedBy,
                 fastFiltered, outcome>>
  /\ UNCHANGED besideResolver

\* getAllTags or getAllReleases rejects: nothing catches the error.
FullThrow ==
  /\ pc = "awaitFull"
  /\ \E error \in SourceErrors :
       /\ rejection' = [op |-> calls[Len(calls)], error |-> error]
       /\ outcome' = Threw(error)
       /\ pc' = "done"
  /\ UNCHANGED <<itemType, tagFormat, formatPatterns, calls, infos, warnings, fastPath,
                 itemNames, filteredItemNames, allItems, filteredItems, decidedBy,
                 fastFiltered>>
  /\ UNCHANGED besideResolver

Next == Start \/ NamesReturn \/ NamesThrow \/ FullReturn \/ FullThrow

Spec == Init /\ [][Next]_vars

\* The call runs on when it can, and every fetch it awaits completes.
Fairness ==
  /\ WF_vars(Start)
  /\ WF_vars(NamesReturn \/ NamesThrow)
  /\ WF_vars(FullReturn \/ FullThrow)

FairSpec == Spec /\ Fairness

TypeOK ==
  /\ pc \in {"start", "awaitNames", "awaitFull", "done"}
  /\ outcome.kind \in {"pending", "name", "error"}
  /\ (pc = "done") = (outcome.kind # "pending")

\* ------------------------------------------------------------------------
\* Properties of one call
\* ------------------------------------------------------------------------
FullFetches == {"getAllTags", "getAllReleases"}

\* The names of the fetch the call decided on.
SuppliedNames == IF fastPath = "returned" THEN itemNames ELSE ItemNamesOf(allItems)

\* The context of the filtering the call decided on.
DecidingContext == IF fastPath = "returned" THEN "optimized path" ELSE FullContext(itemType)

\* The patterns whose evaluation was logged under a context, in order.
RECURSIVE EvaluatedPatterns(_, _)
EvaluatedPatterns(log, context) ==
  IF log = <<>> THEN <<>>
  ELSE (IF Head(log).context = context THEN <<Head(log).pattern>> ELSE <<>>)
       \o EvaluatedPatterns(Tail(log), context)

\* Pattern i of the list is the first that keeps at least one of the names.
FirstFiltering(names, patterns, i) ==
  /\ filterTagsByFormat(names, patterns[i]) # <<>>
  /\ \A j \in 1..(i - 1) : filterTagsByFormat(names, patterns[j]) = <<>>

ExhaustionText == <<"No", "tags", "found", "matching", "any", "format", "pattern">>

Succeeded == pc = "done" /\ outcome.kind = "name"

\* C1: when the optimized path got a non-empty name list and no pattern of
\* the list keeps any of the names, the call fails at once with the
\* pattern-exhaustion error and getAllTags is never invoked.
C1_FastExhaustionFailsAtOnce ==
  (fastPath = "exhausted" /\ formatPatterns.list # <<>>) =>
    /\ pc = "done"
    /\ outcome.kind = "error"
    /\ Includes(outcome.error.message, ExhaustionText)
    /\ "getAllTags" \notin Range(calls)

\* C2: when getAllTagNames returns the empty list, the call fails at once
\* with 'No tags found in repository' and getAllTags is never invoked.
C2_EmptyNamesFailAtOnce ==
  fastPath = "empty" =>
    /\ pc = "done"
    /\ outcome = Threw(NoItemsError("tags"))
    /\ "getAllTags" \notin Range(calls)

C4_FullFetchErrorPropagates ==
  rejection.op \in FullFetches =>
    /\ pc = "done"
    /\ outcome = Threw(rejection.error)
    /\ calls[Len(calls)] = rejection.op
    /\ Cardinality({i \in DOMAIN calls : calls[i] \in FullFetches}) = 1
    /\ allItems = <<>>

C4_Witness ==
  /\ rejection.op = "getAllTags"
  /\ fastPath = "nosemver"
  /\ outcome.kind = "error"
  /\ outcome.error.isError

\* C5: the names the pattern filtering returns are the names the first
\* pattern of the list with a non-empty result keeps, and the patterns
\* evaluated are exactly the patterns up to that one: no later pattern is
\* evaluated.
C5_FirstFilteringPatternWins ==
  (Succeeded /\ formatPatterns.defined) =>
    \E i \in 1..Len(formatPatterns.list) :
      /\ EvaluatedPatterns(infos, DecidingContext) = SubSeq(formatPatterns.list, 1, i)
      /\ filteredItemNames = filterTagsByFormat(SuppliedNames, formatPatterns.list[i])
      /\ FirstFiltering(SuppliedNames, formatPatterns.list, i)

\* The first pattern keeps no name of the dated list and the second does.
C5_Witness ==
  /\ Succeeded
  /\ formatPatterns.list = <<P_XXX, P_XX>>
  /\ Len(allItems) = 2
  /\ filteredItemNames = <<N_3_2_b>>
  /\ Len(EvaluatedPatterns(infos, DecidingContext)) = 2

\* The message names the exhaustion, lists the patterns in order and states
\* their number.
IsExhaustionMessage(message, patterns) ==
  /\ Includes(message, ExhaustionText)
  /\ Includes(message, <<"[">> \o JoinQuoted(patterns) \o <<"]">>)
  /\ Includes(message, <<"Tried">> \o NumToStr(Len(patterns)) \o <<"pattern(s)">>)

\* The dated fetch answered with items and the list has patterns.
DatedListFiltered ==
  /\ pc = "done"
  /\ fastPath # "returned"
  /\ rejection.op \notin FullFetches
  /\ allItems # <<>>
  /\ formatPatterns.list # <<>>

\* No pattern of the list keeps a name of the dated list.
DatedListExhausted ==
  /\ DatedListFiltered
  /\ \A i \in 1..Len(formatPatterns.list) :
       filterTagsByFormat(ItemNamesOf(allItems), formatPatterns.list[i]) = <<>>

\* The call failed with the exhaustion error that lists the patterns.
FailedWithExhaustion ==
  /\ outcome.kind = "error"
  /\ outcome.error.isError
  /\ IsExhaustionMessage(outcome.error.message, formatPatterns.list)

Survivors == Range(filteredItemNames)

SemverSurvivors == {n \in Survivors : isSemver(n)}

NoSemverSurvivor == \A n \in Survivors : ~isSemver(n)

\* C7: when a call succeeds and the survivors of the pattern filtering
\* include a semver-like name, the returned name is a semver-like survivor
\* that no other semver-like survivor exceeds in semver precedence, whatever
\* the dates and the order the source supplied.
C7_SemverSurvivorWins ==
  (Succeeded /\ SemverSurvivors # {}) =>
    /\ outcome.name \in SemverSurvivors
    /\ \A n \in SemverSurvivors : compareSemver(n, outcome.name) <= 0

\* The lower version comes first and carries the later date.
C7_Witness ==
  /\ Succeeded
  /\ allItems = <<Item(N_1_2_0, D_Jan10), Item(N_1_10_0, D_Jan02)>>
  /\ outcome.name = N_1_10_0

DatedSurvivors == {i \in 1..Len(filteredItems) : filteredItems[i].date # <<>>}

FullPathSucceeded == Succeeded /\ fastPath # "returned"

\* C8: when no survivor of the dated list is semver-like and some survivor
\* has a date, the returned name belongs to a dated survivor whose date no
\* other dated survivor's date exceeds; an undated survivor is not returned.
C8_MostRecentDatedSurvivorWins ==
  (FullPathSucceeded /\ DatedSurvivors # {} /\ NoSemverSurvivor) =>
    \E i \in DatedSurvivors :
      /\ filteredItems[i].name = outcome.name
      /\ \A j \in DatedSurvivors :
           DateGetTime(filteredItems[j].date) <= DateGetTime(filteredItems[i].date)

\* The older survivor comes first and is the greater name.
C8_Witness ==
  /\ FullPathSucceeded
  /\ allItems = <<Item(N_edge, D_Jan02), Item(N_3_2_b, D_Jan10)>>
  /\ outcome.name = N_3_2_b

\* C9: when no survivor is semver-like and no survivor has a date, the
\* returned name is the survivor that is greatest in code unit order,
\* whatever the order the source supplied.
C9_LexicographicallyGreatestWins ==
  (FullPathSucceeded /\ DatedSurvivors = {} /\ NoSemverSurvivor) =>
    /\ outcome.name \in Survivors
    /\ \A n \in Survivors : ~LexLess(outcome.name, n)

C9_Witness ==
  /\ FullPathSucceeded
  /\ allItems = <<Item(N_edge, NoDate), Item(N_3_2_b, NoDate)>>
  /\ outcome.name = N_edge
  /\ decidedBy = "alphabetical"

\* Pattern i of the list is the first that matches at least one of the names.
FirstMatching(names, patterns, i) ==
  /\ \E k \in 1..Len(names) : matchTagFormat(names[k], patterns[i])
  /\ \A j \in 1..(i - 1) : \A k \in 1..Len(names) : ~matchTagFormat(names[k], patterns[j])

\* C10 as stated: the returned name is one the source supplied and, when
\* patterns are given, matches the first pattern of the list that matches at
\* least one supplied name.
C10_ReturnedMatchesFirstMatchingPattern ==
  Succeeded =>
    /\ outcome.name \in Range(SuppliedNames)
    /\ formatPatterns.defined =>
         \A i \in 1..Len(formatPatterns.list) :
           \/ matchTagFormat(outcome.name, formatPatterns.list[i])
           \/ ~FirstMatching(SuppliedNames, formatPatterns.list, i)

\* C10 amended: the returned name is one the source supplied and, when
\* patterns are given, matches the first pattern of the list that keeps at
\* least one supplied name under filterTagsByFormat, unless that pattern is
\* the empty string, which keeps every name.
C10_ReturnedMatchesFirstFilteringPattern ==
  Succeeded =>
    /\ outcome.name \in Range(SuppliedNames)
    /\ formatPatterns.defined =>
         \E i \in 1..Len(formatPatterns.list) :
           /\ \/ formatPatterns.list[i] = <<>>
              \/ matchTagFormat(outcome.name, formatPatterns.list[i])
           /\ FirstFiltering(SuppliedNames, formatPatterns.list, i)

\* The name the pattern rejects has the highest precedence and a date that
\* no other date exceeds.
C10_Witness ==
  /\ FullPathSucceeded
  /\ formatPatterns.list = <<P_XX>>
  /\ allItems = <<Item(N_3_2_b, D_Jan10), Item(N_1_2_0, D_Jan10)>>
  /\ outcome.name = N_3_2_b

\* C11: for tags, getAllTagNames is the first operation invoked and
\* getAllTags is invoked only after the optimized path has ended without a
\* name; whenever the names the optimized path's filtering kept include a
\* semver-like name, the call returns a name and getAllTags is never invoked.
C11_FastPathFirstAndSufficient ==
  itemType = "tags" =>
    /\ calls # <<>> => calls[1] = "getAllTagNames"
    /\ "getAllTags" \in Range(calls) =>
         /\ calls = <<"getAllTagNames", "getAllTags">>
         /\ fastPath \in {"nosemver", "exhausted", "empty", "fetchError"}
    /\ (\E n \in fastFiltered : isSemver(n)) =>
         /\ fastPath = "returned"
         /\ Succeeded
         /\ outcome.name \in fastFiltered
         /\ calls = <<"getAllTagNames">>

\* A semver-like name sits behind a name that is not semver-like.
C11_Witness ==
  /\ itemType = "tags"
  /\ fastPath = "returned"
  /\ itemNames = <<N_edge, N_1_2_0>>
  /\ outcome.name = N_1_2_0
  /\ calls = <<"getAllTagNames">>

\* C12: for releases the only operation invoked is one getAllReleases, and
\* the list it answers is ordered as a tag list is: semver first, then dates,
\* then the alphabetical order.
C12_ReleaseUsesOnlyGetAllReleases ==
  itemType = "release" =>
    /\ calls = IF pc = "start" THEN <<>> ELSE <<"getAllReleases">>
    /\ fastPath = "none"
    /\ (pc = "done" /\ rejection.op = "none") =>
         \E t \in {FullPath(allItems, formatPatterns, "tags")} :
           /\ decidedBy = t.by
           /\ outcome.kind = t.outcome.kind
           /\ outcome.name = t.outcome.name
           /\ filteredItems = t.filteredItems

C12_Witness ==
  /\ itemType = "release"
  /\ Succeeded
  /\ decidedBy = "date"
  /\ Len(allItems) = 2
  /\ calls = <<"getAllReleases">>

\* The dated fetch answered with the empty list.
DatedListEmpty ==
  /\ pc = "done"
  /\ fastPath # "returned"
  /\ rejection.op \notin FullFetches
  /\ calls # <<>>
  /\ calls[Len(calls)] \in FullFetches
  /\ allItems = <<>>

\* C13: when the dated fetch answers with no item, the call fails with a
\* message that contains 'No tags found' for tags and 'No releases found'
\* for releases, and no pattern has been evaluated on the dated list.
C13_EmptyDatedListFails ==
  DatedListEmpty =>
    /\ outcome.kind = "error"
    /\ outcome.error.isError
    /\ Includes(outcome.error.message,
                <<"No", IF itemType = "release" THEN "releases" ELSE "tags", "found">>)
    /\ ~Includes(outcome.error.message, ExhaustionText)
    /\ EvaluatedPatterns(infos, FullContext(itemType)) = <<>>

C13_Witness ==
  /\ DatedListEmpty
  /\ itemType = "release"
  /\ formatPatterns.list = <<P_XX>>
  /\ outcome.kind = "error"

\* ------------------------------------------------------------------------
\* The format matcher on its own: matchTagFormat on every name of a list,
\* filterTagsByFormat, the same filter on its own result, and
\* filterTagsWithFallback with the pattern first in a list of two.
\* ------------------------------------------------------------------------
T_empty == <<>>
T_1_2 == <<"1", ".", "2">>
T_1d2 == <<"1", "-", "2">>
T_123 == <<"1", "2", "3">>
T_1_2_b == <<"1", ".", "2", "-", "b">>
T_10_5_0 == <<"1", "0", ".", "5", ".", "0">>
T_1_2_3 == <<"1", ".", "2", ".", "3">>
T_v1_2_3 == <<"v", "1", ".", "2", ".", "3">>
T_V1_2_3 == <<"V", "1", ".", "2", ".", "3">>
T_v1_2_3_alpha == <<"v", "1", ".", "2", ".", "3", "-", "a", "l", "p", "h", "a">>
T_X == <<"X">>
T_latest == <<"l", "a", "t", "e", "s", "t">>
T_open == <<"(", "1">>

MatchNames ==
  {T_empty, T_1_2, T_1d2, T_123, T_1_2_b, T_10_5_0, T_1_2_3, T_v1_2_3, T_V1_2_3,
   T_v1_2_3_alpha, T_X, T_latest, T_open}

\* The names the lists of more than one name are made of.
ListNames == {T_1_2, T_1d2, T_latest}

MatchInputs == {<<n>> : n \in MatchNames} \cup SeqsUpTo(ListNames, MaxNames)

P_vXXX == <<"v", "X", ".", "X", ".", "X">>
P_VXXX == <<"V", "X", ".", "X", ".", "X">>
P_X == <<"X">>
P_latest == <<"l", "a", "t", "e", "s", "t">>
P_1_2 == <<"1", ".", "2">>
P_open == <<"(", "1">>
P_star == <<"*">>
P_any == <<".", "*">>
P_alt == <<"1", "|", "2">>
P_slashed == <<"/", "^", "\\", "d", "+", "\\", ".", "\\", "d", "+", "$", "/">>

MatchPatterns ==
  {P_empty, P_XX, P_XXX, P_vXXX, P_VXXX, P_X, P_latest, P_1_2, P_open, P_star, P_any,
   P_alt, P_slashed}

\* The patterns that follow the pattern under test in a fallback list.
NextPatterns == {P_XX, P_latest}

\* resolveLatestTag is not called.
ResolverIdle ==
  /\ pc = "idle"
  /\ itemType = "tags"
  /\ tagFormat = [form |-> "absent", items |-> <<>>]
  /\ formatPatterns = [defined |-> FALSE, list |-> <<>>]
  /\ calls = <<>>
  /\ infos = <<>>
  /\ warnings = <<>>
  /\ fastPath = "none"
  /\ itemNames = <<>>
  /\ filteredItemNames = <<>>
  /\ allItems = <<>>
  /\ filteredItems = <<>>
  /\ decidedBy = "none"
  /\ rejection = NoRejection
  /\ fastFiltered = {}
  /\ outcome = Pending

MatcherInit ==
  /\ ResolverIdle
  /\ PairIdle
  /\ RunIdle
  /\ phase = "input"
  /\ inputNames \in MatchInputs
  /\ inputFormat \in MatchPatterns
  /\ matchResults = <<>>
  /\ filterResult = <<>>
  /\ refilterResult = <<>>
  /\ fallbackResult = NoFallback

\* matchTagFormat(name, inputFormat) for every name of the list.
Match ==
  /\ phase = "input"
  /\ matchResults' = [i \in 1..Len(inputNames) |-> matchTagFormat(inputNames[i], inputFormat)]
  /\ phase' = "matched"
  /\ UNCHANGED <<inputNames, inputFormat, filterResult, refilterResult, fallbackResult>>
  /\ UNCHANGED besideMatcher

\* filterTagsByFormat(inputNames, inputFormat)
Filter ==
  /\ phase = "matched"
  /\ filterResult' = filterTagsByFormat(inputNames, inputFormat)
  /\ phase' = "filtered"
  /\ UNCHANGED <<inputNames, inputFormat, matchResults, refilterResult, fallbackResult>>
  /\ UNCHANGED besideMatcher

\* filterTagsByFormat on the result of the first filtering
FilterAgain ==
  /\ phase = "filtered"
  /\ refilterResult' = filterTagsByFormat(filterResult, inputFormat)
  /\ phase' = "refiltered"
  /\ UNCHANGED <<inputNames, inputFormat, matchResults, filterResult, fallbackResult>>
  /\ UNCHANGED besideMatcher

\* filterTagsWithFallback(inputNames, [inputFormat, next], context)
Fallback ==
  /\ phase = "refiltered"
  /\ \E next \in NextPatterns :
       fallbackResult' =
         filterTagsWithFallback(inputNames, <<inputFormat, next>>, FullContext("tags"))
  /\ phase' = "fellback"
  /\ UNCHANGED <<inputNames, inputFormat, matchResults, filterResult, refilterResult>>
  /\ UNCHANGED besideMatcher

MatcherNext == Match \/ Filter \/ FilterAgain \/ Fallback

MatcherSpec == MatcherInit /\ [][MatcherNext]_vars

\* matchTagFormat has been applied to every name of the list.
Matched == phase \in {"matched", "filtered", "refiltered", "fellback"}

\* filterTagsByFormat has been applied to the list.
Filtered == phase \in {"filtered", "refiltered", "fellback"}

\* The number of placeholders of a simple pattern.
RECURSIVE Placeholders(_)
Placeholders(format) ==
  IF format = <<>> THEN 0
  ELSE (IF Head(format) \in {"X", "x"} THEN 1 ELSE 0) + Placeholders(Tail(format))

\* From position i to its end, s is exactly k groups of one or more digits
\* separated by dots.
RECURSIVE DigitGroups(_, _, _)
RECURSIVE DigitGroupsAfter(_, _, _)
DigitGroups(s, i, k) == DigitGroupsAfter(s, i + DigitRun(s, i), IF DigitRun(s, i) > 0 THEN k ELSE 0)

DigitGroupsAfter(s, j, k) ==
  IF k = 0 THEN FALSE
  ELSE IF k = 1 THEN j = Len(s) + 1
  ELSE j <= Len(s) /\ s[j] = "." /\ DigitGroups(s, j + 1, k - 1)

\* s is the pattern's v, if it has one, followed by as many dot-separated
\* digit groups as the pattern has placeholders.
HasShape(s, format) ==
  IF format[1] \in {"v", "V"}
  THEN StartsWith(s, format[1]) /\ DigitGroups(s, 2, Placeholders(format))
  ELSE DigitGroups(s, 1, Placeholders(format))

\* C14: for a simple pattern with k placeholders, matchTagFormat is true
\* exactly when the whole name, or else its numeric prefix, is the pattern's
\* optional v followed by exactly k groups of digits separated by literal dots.
C14_SimplePatternMatchesDotSeparatedGroups ==
  (Matched /\ isSimplePattern(inputFormat)) =>
    \A i \in 1..Len(inputNames) :
      matchResults[i] <=> (\/ HasShape(inputNames[i], inputFormat)
                           \/ HasShape(extractPrefix(inputNames[i]), inputFormat))

\* C15: a simple pattern written with a leading v matches only names that
\* begin with that v in the case written: 'vX.X.X' rejects '1.2.3' and
\* 'V1.2.3' and accepts 'v1.2.3' and 'v1.2.3-alpha'.
C15_LeadingVIsRequiredInExactCase ==
  (Matched /\ isSimplePattern(inputFormat) /\ inputFormat[1] \in {"v", "V"}) =>
    \A i \in 1..Len(inputNames) :
      /\ matchResults[i] => StartsWith(inputNames[i], inputFormat[1])
      /\ inputFormat = P_vXXX =>
           /\ inputNames[i] \in {T_1_2_3, T_V1_2_3} => ~matchResults[i]
           /\ inputNames[i] \in {T_v1_2_3, T_v1_2_3_alpha} => matchResults[i]

C15_Witness ==
  /\ phase = "matched"
  /\ inputFormat = P_vXXX
  /\ inputNames = <<T_v1_2_3_alpha>>
  /\ matchResults = <<TRUE>>

\* The pattern is neither simple nor regex.
IsLiteralPattern(format) == ~isSimplePattern(format) /\ ~isRegexPattern(format)

\* C16 as stated: for a pattern that is neither simple nor regex,
\* matchTagFormat is true if and only if the name equals the pattern.
C16_LiteralMatchesByEqualityOnly ==
  (Matched /\ IsLiteralPattern(inputFormat)) =>
    \A i \in 1..Len(inputNames) : matchResults[i] <=> inputNames[i] = inputFormat

\* C16 amended: for a non-empty pattern that is neither simple nor regex,
\* matchTagFormat is true if and only if the name equals the pattern; the
\* numeric prefix of the name is never tried.
C16_NonEmptyLiteralMatchesByEqualityOnly ==
  (Matched /\ IsLiteralPattern(inputFormat) /\ inputFormat # <<>>) =>
    \A i \in 1..Len(inputNames) : matchResults[i] <=> inputNames[i] = inputFormat

\* The numeric prefix of the name equals the literal pattern, the name does not.
C16_Witness ==
  /\ phase = "matched"
  /\ inputFormat = P_1_2
  /\ inputNames = <<T_1_2_b>>
  /\ extractPrefix(inputNames[1]) = inputFormat
  /\ matchResults = <<FALSE>>

\* The pattern is of the regex class and new RegExp() throws on its source.
FailsToCompile(format) ==
  /\ ~isSimplePattern(format)
  /\ isRegexPattern(format)
  /\ ~RegExpCompiles(RegExpAlternatives(RegexSource(format)))

\* The outcome of a fallback list whose first pattern kept no name and
\* whose second pattern kept the names of the list `kept`.
SecondPatternDecides(result, first, second, kept) ==
  IF kept # <<>>
  THEN result.ok /\ result.filtered = kept
  ELSE ~result.ok /\ result.error = NoMatchError(<<first, second>>)

\* C17: a regex-class pattern that fails to compile makes matchTagFormat
\* false for every name, and first in a fallback list it keeps no name, so
\* that the next pattern is evaluated and decides the result.
C17_InvalidRegexMatchesNothing ==
  FailsToCompile(inputFormat) =>
    /\ Matched => \A i \in 1..Len(inputNames) : ~matchResults[i]
    /\ phase = "fellback" =>
         /\ Len(fallbackResult.infos) = 2
         /\ fallbackResult.infos[1].pattern = inputFormat
         /\ fallbackResult.infos[2].pattern \in NextPatterns
         /\ SecondPatternDecides(fallbackResult, inputFormat, fallbackResult.infos[2].pattern,
                                 filterTagsByFormat(inputNames, fallbackResult.infos[2].pattern))

\* The pattern that does not compile keeps no name and the next pattern keeps one.
C17_Witness ==
  /\ phase = "fellback"
  /\ inputFormat = P_open
  /\ inputNames = <<T_latest, T_1_2>>
  /\ matchResults = <<FALSE, FALSE>>
  /\ fallbackResult.ok
  /\ fallbackResult.filtered = <<T_1_2>>

\* The names whose position holds TRUE in results, in the order of the list.
RECURSIVE KeptAt(_, _, _)
KeptAt(names, results, i) ==
  IF i > Len(names) THEN <<>>
  ELSE (IF results[i] THEN <<names[i]>> ELSE <<>>) \o KeptAt(names, results, i + 1)

\* C18: filterTagsByFormat returns exactly the names for which matchTagFormat
\* is true, in their input order and with duplicates kept; for the empty
\* pattern it returns the list unchanged.
C18_FilterKeepsExactlyTheMatches ==
  Filtered =>
    filterResult = IF inputFormat = <<>> THEN inputNames
                   ELSE KeptAt(inputNames, matchResults, 1)

C18_Witness ==
  /\ phase = "filtered"
  /\ inputFormat = P_XX
  /\ inputNames = <<T_latest, T_1_2>>
  /\ filterResult = <<T_1_2>>

\* C19: filtering the result of filterTagsByFormat once more with the same
\* pattern gives the same list.
C19_FilterIsIdempotent ==
  phase \in {"refiltered", "fellback"} => refilterResult = filterResult

C19_Witness ==
  /\ phase = "refiltered"
  /\ inputFormat = P_XX
  /\ inputNames = <<T_1_2, T_latest>>
  /\ filterResult = <<T_1_2>>
  /\ refilterResult = <<T_1_2>>

\* C20: matchTagFormat is false whenever the pattern or the name is empty.
C20_EmptyArgumentNeverMatches ==
  Matched =>
    \A i \in 1..Len(inputNames) :
      (inputFormat = <<>> \/ inputNames[i] = <<>>) => ~matchResults[i]

\* The empty name against an expression that matches the empty string.
C20_Witness ==
  /\ phase = "matched"
  /\ inputFormat = P_any
  /\ inputNames = <<T_empty>>
  /\ matchResults = <<FALSE>>

\* The classes whose test accepts the pattern.
PatternClasses(format) ==
  {c \in {"simple", "regex", "literal"} :
     \/ c = "simple" /\ isSimplePattern(format)
     \/ c = "regex" /\ isRegexPattern(format)
     \/ c = "literal" /\ IsLiteralPattern(format)}

\* What the treatment of one class answers for a name.
Treatment(class, tagName, format) ==
  IF class = "simple"
  THEN TestFullOrPrefix(RegExpAlternatives(convertSimplePatternToRegex(format)), tagName)
  ELSE IF class = "regex"
  THEN TestFullOrPrefix(RegExpAlternatives(RegexSource(format)), tagName)
  ELSE tagName = format

\* C21: no pattern is accepted by both isSimplePattern and isRegexPattern,
\* every non-empty pattern belongs to exactly one of the classes simple,
\* regex and literal, and matchTagFormat answers what that class's treatment
\* answers.
C21_ExactlyOneClassApplies ==
  (Matched /\ inputFormat # <<>>) =>
    /\ ~(isSimplePattern(inputFormat) /\ isRegexPattern(inputFormat))
    /\ Cardinality(PatternClasses(inputFormat)) = 1
    /\ \A i \in 1..Len(inputNames) :
         inputNames[i] # <<>> =>
           \A c \in PatternClasses(inputFormat) :
             matchResults[i] = Treatment(c, inputNames[i], inputFormat)

C21_Witness ==
  /\ phase = "matched"
  /\ inputFormat = P_XX
  /\ PatternClasses(inputFormat) = {"simple"}
  /\ inputNames = <<T_1_2>>
  /\ matchResults = <<TRUE>>

\* ------------------------------------------------------------------------
\* resolveLatestTag as a function of one call's own values, and two such
\* calls whose fetch completions interleave.
\* ------------------------------------------------------------------------

\* Lines 187-210: normalisation and the first fetch.
CallStart(c) ==
  [c EXCEPT !.patterns = NormalizeFormat(c.format),
            !.calls = <<IF c.type = "tags" THEN "getAllTagNames" ELSE "getAllReleases">>,
            !.pc = IF c.type = "tags" THEN "awaitNames" ELSE "awaitFull"]

\* The catch block of the optimized path.
CallCaught(c, error) ==
  IF CatchRethrows(error)
  THEN [c EXCEPT !.pc = "done", !.outcome = Threw(error)]
  ELSE [c EXCEPT !.pc = "awaitFull", !.calls = Append(@, "getAllTags")]

\* An optimized path that returns the first name the filtering kept.
CallNamesDecided_FirstKept(c, r) ==
  IF r.branch = "returned"
  THEN [c EXCEPT !.pc = "done", !.outcome = Returned(r.filtered[1]),
                 !.considered = r.filtered]
  ELSE IF r.branch = "fallthrough"
  THEN [c EXCEPT !.pc = "awaitFull", !.calls = Append(@, "getAllTags")]
  ELSE CallCaught(c, r.error)

\* The try block once getAllTagNames has resolved.
CallNamesDecided(c, r) ==
  IF r.branch = "returned"
  THEN [c EXCEPT !.pc = "done", !.outcome = Returned(r.latest), !.considered = r.filtered]
  ELSE IF r.branch = "fallthrough"
  THEN [c EXCEPT !.pc = "awaitFull", !.calls = Append(@, "getAllTags")]
  ELSE CallCaught(c, r.error)

\* The completion of getAllTagNames.
CallNames(c) ==
  IF c.names.ok
  THEN CallNamesDecided(c, FastPath(c.names.value, c.patterns))
  ELSE CallCaught(c, c.names.error)

CallFullDecided(c, r) ==
  [c EXCEPT !.pc = "done", !.outcome = r.outcome, !.considered = r.filteredItemNames]

\* A dated path that fails with the error of the name fetch when that
\* fetch had rejected.
CallFull_RemembersNameError(c) ==
  IF c.type = "tags" /\ ~c.names.ok
  THEN [c EXCEPT !.pc = "done", !.outcome = Threw(c.names.error)]
  ELSE IF c.full.ok
  THEN CallFullDecided(c, FullPath(c.full.value, c.patterns, c.type))
  ELSE [c EXCEPT !.pc = "done", !.outcome = Threw(c.full.error)]

\* The completion of getAllTags or getAllReleases.
CallFull(c) ==
  IF c.full.ok
  THEN CallFullDecided(c, FullPath(c.full.value, c.patterns, c.type))
  ELSE [c EXCEPT !.pc = "done", !.outcome = Threw(c.full.error)]

\* The next step of a call that is not done.
CallStep(c) ==
  IF c.pc = "start" THEN CallStart(c)
  ELSE IF c.pc = "awaitNames" THEN CallNames(c)
  ELSE CallFull(c)

\* The call run to its end with nothing else in flight.
RECURSIVE CallAlone(_)
CallAlone(c) == IF c.pc = "done" THEN c ELSE CallAlone(CallStep(c))

PairNames == {N_1_2_0, N_edge}

PairItems == {Item(N_1_2_0, D_Jan02), Item(N_edge, D_Jan10)}

PairFormats ==
  {[form |-> "absent", items |-> <<>>],
   [form |-> "string", items |-> <<P_XXX>>], [form |-> "array", items |-> <<P_XXX>>],
   [form |-> "string", items |-> <<P_empty>>], [form |-> "array", items |-> <<P_empty>>]}

PairError == Error(<<"Failed", "to", "get", "tags", ":", "API", "error", "4", "0", "4">>)

NameAnswers == {Resolved(ns) : ns \in SeqsUpTo(PairNames, MaxNames)} \cup {Rejected(PairError)}

FullAnswers == {Resolved(is) : is \in SeqsUpTo(PairItems, MaxTags)} \cup {Rejected(PairError)}

\* The answers of getAllTagNames the second call's data source gives when
\* the two calls differ in that answer only.
OtherNameAnswers == {Resolved(<<>>), Resolved(<<N_edge>>), Rejected(PairError)}

\* The one-element list of the pattern a string format holds.
ListForm(format) == [form |-> "array", items |-> format.items]

\* A release call with a data source of its own.
UnrelatedCall ==
  NewCall("release", [form |-> "absent", items |-> <<>>], Resolved(<<>>),
          Resolved(<<Item(N_edge, D_Jan10), Item(N_3_2_b, D_Jan02)>>))

\* The second call: the first one with its string pattern as a list, the
\* first one with another answer of getAllTagNames, or an unrelated call.
SecondCalls(a) ==
  {UnrelatedCall}
  \cup (IF a.format.form = "string" THEN {[a EXCEPT !.format = ListForm(a.format)]} ELSE {})
  \cup (IF a.type = "tags" THEN {[a EXCEPT !.names = n] : n \in OtherNameAnswers} ELSE {})

FirstCalls ==
  {NewCall("tags", f, n, t) : f \in PairFormats, n \in NameAnswers, t \in FullAnswers}
  \cup {NewCall("release", f, Resolved(<<>>), t) : f \in PairFormats, t \in FullAnswers}

PairInit ==
  /\ ResolverIdle
  /\ MatcherIdle
  /\ RunIdle
  /\ callA \in FirstCalls
  /\ callB \in SecondCalls(callA)

\* The second call advances on the answers of the first call's data source.
StepB_SharedSource ==
  /\ callB.pc # "done"
  /\ callB' = [CallStep([callB EXCEPT !.names = callA.names, !.full = callA.full])
                 EXCEPT !.names = callB.names, !.full = callB.full]
  /\ UNCHANGED <<callA, besidePair>>

\* The first call starts, or the fetch it awaits completes.
StepA ==
  /\ callA.pc # "done"
  /\ callA' = CallStep(callA)
  /\ UNCHANGED <<callB, besidePair>>

\* The second call starts, or the fetch it awaits completes.
StepB ==
  /\ callB.pc # "done"
  /\ callB' = CallStep(callB)
  /\ UNCHANGED <<callA, besidePair>>

PairNext == StepA \/ StepB

PairSpec == PairInit /\ [][PairNext]_vars

\* The second call is the first with its pattern string as a one-element list.
SameButListForm ==
  /\ callA.format.form = "string"
  /\ callB.format = ListForm(callA.format)
  /\ callB.type = callA.type
  /\ callB.names = callA.names
  /\ callB.full = callA.full

\* The names the fetch that decided the call supplied.
SuppliedTo(c) ==
  IF c.calls = <<"getAllTagNames">> THEN c.names.value ELSE ItemNamesOf(c.full.value)

\* C22: a call with the pattern string p and a call with the list [p] end
\* with the same outcome after the same data-source calls, and a call with
\* no pattern that returns a name has ordered every name it was supplied.
C22_StringIsOneElementList ==
  /\ (SameButListForm /\ callA.pc = "done" /\ callB.pc = "done") =>
       /\ callA.outcome = callB.outcome
       /\ callA.calls = callB.calls
  /\ \A c \in {callA, callB} :
       (c.format.form = "absent" /\ c.pc = "done" /\ c.outcome.kind = "name") =>
         c.considered = SuppliedTo(c)

\* The pattern keeps one of the two names, in both calls.
C22_Witness ==
  /\ SameButListForm
  /\ callA.format.items = <<P_XXX>>
  /\ callA.pc = "done"
  /\ callB.pc = "done"
  /\ callA.names = Resolved(<<N_edge, N_1_2_0>>)
  /\ callA.outcome = Returned(N_1_2_0)
  /\ callB.considered = <<N_1_2_0>>

\* The expression taken as a whole matches s from its first to its last
\* character: some alternative does, between the two ends of s.
WholeMatch(alts, s) ==
  /\ RegExpCompiles(alts)
  /\ \E a \in 1..Len(alts) :
       MatchFrom(<<[kind |-> "bol", ch |-> "^", q |-> "1"]>> \o alts[a]
                   \o <<[kind |-> "eol", ch |-> "$", q |-> "1"]>>, 1, s, 1)

\* The pattern is of the regex class.
IsRegexClass(format) == ~isSimplePattern(format) /\ isRegexPattern(format)

\* C23: for a regex-class pattern, matchTagFormat is true only if the
\* pattern without its delimiter slashes matches the entire name or the
\* entire numeric prefix of the name, also when it contains an alternation.
C23_RegexMatchesWholeNameOrPrefix ==
  (Matched /\ IsRegexClass(inputFormat)) =>
    \A i \in 1..Len(inputNames) :
      matchResults[i] =>
        \E s \in MatchSubjects(inputNames[i], extractPrefix(inputNames[i])) :
          WholeMatch(RegExpAlternatives(StripSlashes(inputFormat)), s)

\* How many times the operation has been invoked.
Invocations(op) == Cardinality({i \in 1..Len(calls) : calls[i] = op})

\* No operation has been invoked twice and at most two fetches were made.
AtMostOnceEach ==
  /\ Len(calls) <= 2
  /\ \A op \in {"getAllTagNames", "getAllTags", "getAllReleases"} : Invocations(op) <= 1

\* C24: within one call each data-source operation is invoked at most once,
\* at most two fetches are made, and no fetch is issued once the call has
\* returned a name or failed.
C24_NoRetries ==
  /\ []AtMostOnceEach
  /\ [][pc = "done" => calls' = calls]_vars

\* Both fetches of a tags call were made and the call has ended.
C24_Witness ==
  /\ pc = "done"
  /\ calls = <<"getAllTagNames", "getAllTags">>
  /\ rejection.op = "getAllTagNames"
  /\ outcome.kind = "name"

\* The call is for tags and its data source answers getAllTagNames with
\* the names of its getAllTags answer, in the same order.
NamesAgreeWithTags(c) ==
  /\ c.type = "tags"
  /\ c.names.ok
  /\ c.full.ok
  /\ c.names.value = ItemNamesOf(c.full.value)

\* What the code after the dated fetch alone makes of the call's getAllTags
\* answer.
DatedPathOnly(c) == FullPath(c.full.value, NormalizeFormat(c.format), "tags").outcome

\* C25: for tags and a data source whose name list is the name list of its
\* dated list, the call ends with the outcome that the dated path alone
\* gives on the dated list: the same name, or the same failure.
C25_FastPathIsPureOptimisation ==
  \A c \in {callA, callB} :
    (NamesAgreeWithTags(c) /\ c.pc = "done") => c.outcome = DatedPathOnly(c)

\* The optimized path returned a semver name that is not the first name and
\* not the most recent item.
C25_Witness ==
  /\ NamesAgreeWithTags(callA)
  /\ callA.pc = "done"
  /\ callA.calls = <<"getAllTagNames">>
  /\ callA.full.value = <<Item(N_edge, D_Jan10), Item(N_1_2_0, D_Jan02)>>
  /\ callA.outcome = Returned(N_1_2_0)

\* ------------------------------------------------------------------------
\* run() of index.ts: resolve 'latest' if asked to, fetch the item's
\* information, set the outputs; any error ends in setFailed.
\* ------------------------------------------------------------------------
UpperCase == <<"A", "E", "L", "S", "T", "V">>
LowerCase == <<"a", "e", "l", "s", "t", "v">>

\* String.prototype.toLowerCase on one character.
LowerChar(c) ==
  IF \E i \in 1..Len(UpperCase) : UpperCase[i] = c
  THEN LowerCase[CHOOSE i \in 1..Len(UpperCase) : UpperCase[i] = c]
  ELSE c

toLowerCase(str) == [i \in 1..Len(str) |-> LowerChar(str[i])]

R_latest == <<"l", "a", "t", "e", "s", "t">>
R_Latest == <<"L", "a", "t", "e", "s", "t">>
R_LATEST == <<"L", "A", "T", "E", "S", "T">>

RunTagNames == {R_latest, R_Latest, R_LATEST, N_1_2_0, N_edge}

\* A rejection with a value that is not an Error.
NotAnError == [isError |-> FALSE, message |-> <<"socket", "closed">>]

\* The resolveLatestTag calls run() can make: type and format from the
\* inputs, the answers from the platform adapter.
RunCalls ==
  {NewCall(type, f, n, t) :
     type \in {"tags", "release"},
     f \in {[form |-> "absent", items |-> <<>>], [form |-> "string", items |-> <<P_XXX>>]},
     n \in {Resolved(<<N_1_2_0>>), Resolved(<<>>), Rejected(PairError)},
     t \in {Resolved(<<>>), Resolved(<<Item(N_edge, D_Jan10)>>), Rejected(PairError),
            Rejected(NotAnError)}}

Event(op, arg) == [op |-> op, arg |-> arg]

SetupError == Error(<<"Unsupported", "platform">>)

UnknownError == <<"Unknown", "error", "occurred">>

\* The catch block of run().
SetFailed(error) == Event("setFailed", IF error.isError THEN error.message ELSE UnknownError)

InfoOp(type) == IF type = "release" THEN "getReleaseInfo" ELSE "getTagInfo"

OutputKeys ==
  <<"exists", "name", "item-sha", "item-sha-short", "item-type", "commit-sha",
    "commit-sha-short", "details", "verified", "is-draft", "is-prerelease">>

SetOutputs == [i \in 1..Len(OutputKeys) |-> Event("setOutput", <<OutputKeys[i]>>)]

RunInit ==
  /\ ResolverIdle
  /\ MatcherIdle
  /\ PairIdle
  /\ runPc = "start"
  /\ runInputs \in [tagName : RunTagNames, call : RunCalls]
  /\ runEvents = <<>>

besideRun == <<resolverVars, matcherVars, pairVars>>

\* run() up to its first await on resolveLatestTag or on the info fetch;
\* reading the inputs or creating the platform API may throw.
RunStart ==
  /\ runPc = "start"
  /\ \/ /\ runEvents' = Append(runEvents, SetFailed(SetupError))
        /\ runPc' = "done"
     \/ /\ toLowerCase(runInputs.tagName) = R_latest
        /\ runEvents' = Append(runEvents, Event("resolveLatestTag", <<>>))
        /\ runPc' = "awaitResolve"
     \/ /\ toLowerCase(runInputs.tagName) # R_latest
        /\ runEvents' = Append(runEvents, Event(InfoOp(runInputs.call.type), runInputs.tagName))
        /\ runPc' = "awaitInfo"
  /\ UNCHANGED <<runInputs, besideRun>>

\* resolveLatestTag resolves with a name.
ResolveReturns ==
  /\ runPc = "awaitResolve"
  /\ \E o \in {CallAlone(runInputs.call).outcome} :
       /\ o.kind = "name"
       /\ runEvents' = Append(runEvents, Event(InfoOp(runInputs.call.type), o.name))
  /\ runPc' = "awaitInfo"
  /\ UNCHANGED <<runInputs, besideRun>>

\* A catch block that reports every failure of the resolution alike.
ResolveThrows_Generic ==
  /\ runPc = "awaitResolve"
  /\ \E o \in {CallAlone(runInputs.call).outcome} :
       /\ o.kind = "error"
       /\ runEvents' = Append(runEvents, Event("setFailed", UnknownError))
  /\ runPc' = "done"
  /\ UNCHANGED <<runInputs, besideRun>>

\* resolveLatestTag rejects.
ResolveThrows ==
  /\ runPc = "awaitResolve"
  /\ \E o \in {CallAlone(runInputs.call).outcome} :
       /\ o.kind = "error"
       /\ runEvents' = Append(runEvents, SetFailed(o.error))
  /\ runPc' = "done"
  /\ UNCHANGED <<runInputs, besideRun>>

\* getTagInfo or getReleaseInfo resolves: the outputs are set.
InfoResolves ==
  /\ runPc = "awaitInfo"
  /\ runEvents' = runEvents \o SetOutputs
  /\ runPc' = "done"
  /\ UNCHANGED <<runInputs, besideRun>>

\* getTagInfo or getReleaseInfo rejects.
InfoRejects ==
  /\ runPc = "awaitInfo"
  /\ \E error \in {PairError, NotAnError} : runEvents' = Append(runEvents, SetFailed(error))
  /\ runPc' = "done"
  /\ UNCHANGED <<runInputs, besideRun>>

RunNext == RunStart \/ ResolveReturns \/ ResolveThrows \/ InfoResolves \/ InfoRejects

RunSpec == RunInit /\ [][RunNext]_vars

\* The requested name is 'latest' in some mix of cases.
AsksForLatest == runInputs.tagName \in {R_latest, R_Latest, R_LATEST}

\* The outcome of the resolution run() awaits.
Resolution == CallAlone(runInputs.call).outcome

Invoked(op) == \E i \in 1..Len(runEvents) : runEvents[i].op = op

\* resolveLatestTag was invoked and has rejected.
ResolutionFailed ==
  /\ runPc = "done"
  /\ Invoked("resolveLatestTag")
  /\ Resolution.kind = "error"

\* resolveLatestTag is invoked only for 'latest', and an info fetch follows
\* a successful resolution with the resolved name.
ResolvesThenFetches ==
  \A i \in 1..Len(runEvents) :
    /\ runEvents[i].op = "resolveLatestTag" => AsksForLatest
    /\ runEvents[i].op \in {"getTagInfo", "getReleaseInfo"} =>
         IF AsksForLatest
         THEN /\ i > 1
              /\ runEvents[i - 1].op = "resolveLatestTag"
              /\ Resolution.kind = "name"
              /\ runEvents[i].arg = Resolution.name
         ELSE runEvents[i].arg = runInputs.tagName

\* After a failed resolution nothing was fetched or set and setFailed was
\* the last call, made with the given message.
FailedWith(message) ==
  /\ ~Invoked("getTagInfo")
  /\ ~Invoked("getReleaseInfo")
  /\ ~Invoked("setOutput")
  /\ runEvents[Len(runEvents)] = Event("setFailed", message)

\* C26 as stated: resolveLatestTag is invoked only for 'latest' ignoring
\* case, the info fetch follows a successful resolution with the resolved
\* name, and a failed resolution leads to no info fetch, no output and
\* setFailed with the failure's message verbatim.
C26_FailureMessageVerbatim ==
  /\ ResolvesThenFetches
  /\ ResolutionFailed => FailedWith(Resolution.error.message)

\* C26 amended: as above, with setFailed receiving the failure's message
\* verbatim when the failure is an Error and 'Unknown error occurred' when
\* it is any other value.
C26_FailureReportedBySetFailed ==
  /\ ResolvesThenFetches
  /\ ResolutionFailed =>
       FailedWith(IF Resolution.error.isError THEN Resolution.error.message
                  ELSE UnknownError)

\* 'Latest' was resolved, no name matched the pattern, and the message of
\* the exhaustion error went to setFailed.
C26_Witness ==
  /\ ResolutionFailed
  /\ runInputs.tagName = R_Latest
  /\ Includes(Resolution.error.message, ExhaustionText)
  /\ runEvents = <<Event("resolveLatestTag", <<>>), Event("setFailed", Resolution.error.message)>>

\* The call with the same arguments and the same data source, run from its
\* start to its end with no other call in flight.
RunAlone(c) == CallAlone(NewCall(c.type, c.format, c.names, c.full))

OneOutcome ==
  \/ /\ outcome.kind = "name"
     /\ outcome.name \in Names
     /\ outcome.error = NoError
  \/ /\ outcome.kind = "error"
     /\ outcome.name = <<>>
     /\ outcome.error # NoError

\* C28: when every fetch that is invoked completes, the call eventually
\* ends; it ends with exactly one outcome, a single name or a failure, that
\* it keeps, and it has no outcome before it ends.
C28_CallEndsWithOneOutcome ==
  /\ <>(pc = "done")
  /\ [](IF pc = "done" THEN OneOutcome ELSE outcome = Pending)
  /\ [][pc = "done" => outcome' = outcome]_vars

\* The call ended on the last rule, the alphabetical order.
C28_Witness ==
  /\ pc = "done"
  /\ decidedBy = "alphabetical"
  /\ OneOutcome
  /\ outcome.kind = "name"

\* Both calls are for tags with the same patterns and the same getAllTags
\* answer, and both have ended after invoking getAllTags.
BothReachedDatedFetch ==
  /\ callA.type = "tags"
  /\ callB.type = "tags"
  /\ callA.format = callB.format
  /\ callA.full = callB.full
  /\ callA.pc = "done"
  /\ callB.pc = "done"
  /\ callA.calls = <<"getAllTagNames", "getAllTags">>
  /\ callB.calls = <<"getAllTagNames", "getAllTags">>

\* C29: two tags calls with the same patterns and the same getAllTags
\* answer that both reach the dated fetch end with the same name or the
\* same failure, whatever getAllTagNames returned or threw in each.
C29_DatedFetchAloneDecides ==
  BothReachedDatedFetch => callA.outcome = callB.outcome

\* One name fetch returned a name that is not semver-like, the other
\* rejected, and both calls return the same name.
C29_Witness ==
  /\ BothReachedDatedFetch
  /\ callA.names = Resolved(<<N_edge, N_edge>>)
  /\ callB.names = Rejected(PairError)
  /\ callA.outcome = Returned(N_1_2_0)
  /\ callB.outcome = Returned(N_1_2_0)

\* tagFormat is the empty list.
EmptyPatternList == tagFormat = [form |-> "array", items |-> <<>>]

\* C30: with the empty list for tagFormat the call never returns a name:
\* it ends with the exhaustion error of zero patterns, with the error of an
\* empty source, or with the error the dated fetch rejected with.
C30_EmptyPatternListNeverReturns ==
  EmptyPatternList =>
    /\ outcome.kind # "name"
    /\ pc = "done" =>
         /\ outcome.kind = "error"
         /\ \/ outcome.error = NoMatchError(<<>>)
            \/ outcome.error = NoItemsError(itemType)
            \/ rejection.op \in FullFetches /\ outcome.error = rejection.error

\* The source supplied a semver name on both fetches and the call failed.
C30_Witness ==
  /\ EmptyPatternList
  /\ pc = "done"
  /\ itemType = "tags"
  /\ calls = <<"getAllTagNames", "getAllTags">>
  /\ fastPath = "exhausted"
  /\ allItems = <<Item(N_1_2_0, D_Jan10)>>
  /\ outcome = Threw(NoMatchError(<<>>))

====
